---- MODULE Spec2Model ----
(***************************************************************************)
(* Rectangle relationship analysis (package `rectangles`).                 *)
(*                                                                         *)
(* A caller constructs rectangle A, then rectangle B (each construction    *)
(* runs Rectangle.__post_init__ and may raise ValueError), and then calls  *)
(* the three static analyzer functions on the pair.  Coordinates are drawn *)
(* from a bounded integer grid; the code only compares coordinates and     *)
(* copies them, so the grid stands for any totally ordered numeric input.  *)
(* Python values are records tagged with their class in the field `cls`,   *)
(* so that dataclass equality (same class, same fields) is record equality.*)
(***************************************************************************)
EXTENDS Integers, Sequences, FiniteSets, TLC

\* Largest coordinate of the input grid.
MaxCoord == 3

Coord == 0..MaxCoord

VARIABLES
    pc,      \* position of the caller
    argsA,   \* coordinates passed to the constructor of A, <<>> before the call
    argsB,   \* coordinates passed to the constructor of B, <<>> before the call
    a,       \* rectangle A, or None
    b,       \* rectangle B, or None
    exc,     \* the exception raised by the last constructor call, or None
    ires,    \* value returned by RectangleAnalyzer.intersect(a, b), or None
    cres,    \* value returned by RectangleAnalyzer.containment(a, b), or "unset"
    ares,    \* value returned by RectangleAnalyzer.adjacency(a, b), or None
    args,    \* the argparse namespace of cli.run, or None outside the CLI
    stdout,  \* lines printed by cli.run on the output stream
    stderr,  \* lines printed by cli.run on the error stream
    exitCode \* value returned by cli.run, -1 while it has not returned

cliVars == <<args, stdout, stderr, exitCode>>

vars == <<pc, argsA, argsB, a, b, exc, ires, cres, ares, args, stdout, stderr, exitCode>>

----------------------------------------------------------------------------
(* Values *)

None == [cls |-> "None"]

Point(x, y) == [cls |-> "Point", x |-> x, y |-> y]

LineSegment(start, end) == [cls |-> "LineSegment", start |-> start, end |-> end]

IntersectionResult(type, geometry) ==
    [cls |-> "IntersectionResult", type |-> type, geometry |-> geometry]

AdjacencyResult(type, geometry) ==
    [cls |-> "AdjacencyResult", type |-> type, geometry |-> geometry]

\* The ValueError of __post_init__: the f-string
\* "<lo> (<loVal>) must be less than <hi> (<hiVal>)" kept as its four holes.
ValueError(lo, loVal, hi, hiVal) ==
    [cls |-> "ValueError", lo |-> lo, loVal |-> loVal, hi |-> hi, hiVal |-> hiVal]

Raise(e) == [raised |-> TRUE, exc |-> e, value |-> None]

Return(v) == [raised |-> FALSE, exc |-> None, value |-> v]

\* Python's builtin max/min of two arguments: the first one wins a tie.
max(x, y) == IF y > x THEN y ELSE x

min(x, y) == IF y < x THEN y ELSE x

----------------------------------------------------------------------------
(* models.py *)

\* PostInit with the x test written > instead of >= (zero width accepted).
PostInit_StrictGreater(x1, y1, x2, y2) ==
    IF x1 > x2 THEN Raise(ValueError("x1", x1, "x2", x2))
    ELSE IF y1 >= y2 THEN Raise(ValueError("y1", y1, "y2", y2))
    ELSE Return(None)

\* PostInit with the y message copied from the x message without renaming.
PostInit_CopiedMessage(x1, y1, x2, y2) ==
    IF x1 >= x2 THEN Raise(ValueError("x1", x1, "x2", x2))
    ELSE IF y1 >= y2 THEN Raise(ValueError("x1", y1, "x2", y2))
    ELSE Return(None)

\* PostInit with the two tests in the opposite order, y before x.
PostInit_YFirst(x1, y1, x2, y2) ==
    IF y1 >= y2 THEN Raise(ValueError("y1", y1, "y2", y2))
    ELSE IF x1 >= x2 THEN Raise(ValueError("x1", x1, "x2", x2))
    ELSE Return(None)

\* Rectangle.__post_init__: the x ordering is checked first, then y.
PostInit(x1, y1, x2, y2) ==
    IF x1 >= x2 THEN Raise(ValueError("x1", x1, "x2", x2))
    ELSE IF y1 >= y2 THEN Raise(ValueError("y1", y1, "y2", y2))
    ELSE Return(None)

\* Rectangle(x1, y1, x2, y2): the dataclass __init__ stores the fields and
\* then runs __post_init__; the value exists only if that does not raise.
Rectangle(x1, y1, x2, y2) ==
    LET chk == PostInit(x1, y1, x2, y2)
    IN  IF chk.raised THEN chk
        ELSE Return([cls |-> "Rectangle", x1 |-> x1, y1 |-> y1, x2 |-> x2, y2 |-> y2])

----------------------------------------------------------------------------
(* analyzer.py *)

\* intersect with the vertical segment started at a.y1 instead of oy1.
intersect_UnclampedStart(ra, rb) ==
    LET ox1 == max(ra.x1, rb.x1)
        ox2 == min(ra.x2, rb.x2)
        oy1 == max(ra.y1, rb.y1)
        oy2 == min(ra.y2, rb.y2)
    IN  IF ox1 > ox2 \/ oy1 > oy2
            THEN Return(IntersectionResult("NONE", None))
        ELSE IF ox1 = ox2 /\ oy1 = oy2
            THEN Return(IntersectionResult("POINT", Point(ox1, oy1)))
        ELSE IF ox1 = ox2
            THEN Return(IntersectionResult("LINE",
                     LineSegment(Point(ox1, ra.y1), Point(ox1, oy2))))
        ELSE IF oy1 = oy2
            THEN Return(IntersectionResult("LINE",
                     LineSegment(Point(ox1, oy1), Point(ox2, oy1))))
        ELSE LET r == Rectangle(ox1, oy1, ox2, oy2)
             IN  IF r.raised THEN r
                 ELSE Return(IntersectionResult("AREA", r.value))

\* intersect with an open-interval overlap test (>= instead of >).
intersect_OpenOverlap(ra, rb) ==
    LET ox1 == max(ra.x1, rb.x1)
        ox2 == min(ra.x2, rb.x2)
        oy1 == max(ra.y1, rb.y1)
        oy2 == min(ra.y2, rb.y2)
    IN  IF ox1 >= ox2 \/ oy1 >= oy2
            THEN Return(IntersectionResult("NONE", None))
        ELSE IF ox1 = ox2 /\ oy1 = oy2
            THEN Return(IntersectionResult("POINT", Point(ox1, oy1)))
        ELSE IF ox1 = ox2
            THEN Return(IntersectionResult("LINE",
                     LineSegment(Point(ox1, oy1), Point(ox1, oy2))))
        ELSE IF oy1 = oy2
            THEN Return(IntersectionResult("LINE",
                     LineSegment(Point(ox1, oy1), Point(ox2, oy1))))
        ELSE LET r == Rectangle(ox1, oy1, ox2, oy2)
             IN  IF r.raised THEN r
                 ELSE Return(IntersectionResult("AREA", r.value))

\* intersect with the horizontal LINE carrying only its start point.
intersect_LineAsPoint(ra, rb) ==
    LET ox1 == max(ra.x1, rb.x1)
        ox2 == min(ra.x2, rb.x2)
        oy1 == max(ra.y1, rb.y1)
        oy2 == min(ra.y2, rb.y2)
    IN  IF ox1 > ox2 \/ oy1 > oy2
            THEN Return(IntersectionResult("NONE", None))
        ELSE IF ox1 = ox2 /\ oy1 = oy2
            THEN Return(IntersectionResult("POINT", Point(ox1, oy1)))
        ELSE IF ox1 = ox2
            THEN Return(IntersectionResult("LINE",
                     LineSegment(Point(ox1, oy1), Point(ox1, oy2))))
        ELSE IF oy1 = oy2
            THEN Return(IntersectionResult("LINE",
                     Point(ox1, oy1)))
        ELSE LET r == Rectangle(ox1, oy1, ox2, oy2)
             IN  IF r.raised THEN r
                 ELSE Return(IntersectionResult("AREA", r.value))

\* intersect with x2 and y2 transposed in the AREA rectangle.
intersect_TransposedArea(ra, rb) ==
    LET ox1 == max(ra.x1, rb.x1)
        ox2 == min(ra.x2, rb.x2)
        oy1 == max(ra.y1, rb.y1)
        oy2 == min(ra.y2, rb.y2)
    IN  IF ox1 > ox2 \/ oy1 > oy2
            THEN Return(IntersectionResult("NONE", None))
        ELSE IF ox1 = ox2 /\ oy1 = oy2
            THEN Return(IntersectionResult("POINT", Point(ox1, oy1)))
        ELSE IF ox1 = ox2
            THEN Return(IntersectionResult("LINE",
                     LineSegment(Point(ox1, oy1), Point(ox1, oy2))))
        ELSE IF oy1 = oy2
            THEN Return(IntersectionResult("LINE",
                     LineSegment(Point(ox1, oy1), Point(ox2, oy1))))
        ELSE LET r == Rectangle(ox1, oy1, oy2, ox2)
             IN  IF r.raised THEN r
                 ELSE Return(IntersectionResult("AREA", r.value))

\* intersect without the zero-height test: a horizontal touch falls through to AREA.
intersect_NoHorizontalLine(ra, rb) ==
    LET ox1 == max(ra.x1, rb.x1)
        ox2 == min(ra.x2, rb.x2)
        oy1 == max(ra.y1, rb.y1)
        oy2 == min(ra.y2, rb.y2)
    IN  IF ox1 > ox2 \/ oy1 > oy2
            THEN Return(IntersectionResult("NONE", None))
        ELSE IF ox1 = ox2 /\ oy1 = oy2
            THEN Return(IntersectionResult("POINT", Point(ox1, oy1)))
        ELSE IF ox1 = ox2
            THEN Return(IntersectionResult("LINE",
                     LineSegment(Point(ox1, oy1), Point(ox1, oy2))))
        ELSE IF FALSE
            THEN Return(IntersectionResult("LINE",
                     LineSegment(Point(ox1, oy1), Point(ox2, oy1))))
        ELSE LET r == Rectangle(ox1, oy1, ox2, oy2)
             IN  IF r.raised THEN r
                 ELSE Return(IntersectionResult("AREA", r.value))

\* intersect with the endpoints of the vertical segment exchanged.
intersect_ReversedSegment(ra, rb) ==
    LET ox1 == max(ra.x1, rb.x1)
        ox2 == min(ra.x2, rb.x2)
        oy1 == max(ra.y1, rb.y1)
        oy2 == min(ra.y2, rb.y2)
    IN  IF ox1 > ox2 \/ oy1 > oy2
            THEN Return(IntersectionResult("NONE", None))
        ELSE IF ox1 = ox2 /\ oy1 = oy2
            THEN Return(IntersectionResult("POINT", Point(ox1, oy1)))
        ELSE IF ox1 = ox2
            THEN Return(IntersectionResult("LINE",
                     LineSegment(Point(ox1, oy2), Point(ox1, oy1))))
        ELSE IF oy1 = oy2
            THEN Return(IntersectionResult("LINE",
                     LineSegment(Point(ox1, oy1), Point(ox2, oy1))))
        ELSE LET r == Rectangle(ox1, oy1, ox2, oy2)
             IN  IF r.raised THEN r
                 ELSE Return(IntersectionResult("AREA", r.value))

\* intersect with ox2 taken as the larger of the two right edges.
intersect_MaxHigh(ra, rb) ==
    LET ox1 == max(ra.x1, rb.x1)
        ox2 == max(ra.x2, rb.x2)
        oy1 == max(ra.y1, rb.y1)
        oy2 == min(ra.y2, rb.y2)
    IN  IF ox1 > ox2 \/ oy1 > oy2
            THEN Return(IntersectionResult("NONE", None))
        ELSE IF ox1 = ox2 /\ oy1 = oy2
            THEN Return(IntersectionResult("POINT", Point(ox1, oy1)))
        ELSE IF ox1 = ox2
            THEN Return(IntersectionResult("LINE",
                     LineSegment(Point(ox1, oy1), Point(ox1, oy2))))
        ELSE IF oy1 = oy2
            THEN Return(IntersectionResult("LINE",
                     LineSegment(Point(ox1, oy1), Point(ox2, oy1))))
        ELSE LET r == Rectangle(ox1, oy1, ox2, oy2)
             IN  IF r.raised THEN r
                 ELSE Return(IntersectionResult("AREA", r.value))

\* RectangleAnalyzer.intersect
intersect(ra, rb) ==
    LET ox1 == max(ra.x1, rb.x1)
        ox2 == min(ra.x2, rb.x2)
        oy1 == max(ra.y1, rb.y1)
        oy2 == min(ra.y2, rb.y2)
    IN  IF ox1 > ox2 \/ oy1 > oy2
            THEN Return(IntersectionResult("NONE", None))
        ELSE IF ox1 = ox2 /\ oy1 = oy2
            THEN Return(IntersectionResult("POINT", Point(ox1, oy1)))
        ELSE IF ox1 = ox2
            THEN Return(IntersectionResult("LINE",
                     LineSegment(Point(ox1, oy1), Point(ox1, oy2))))
        ELSE IF oy1 = oy2
            THEN Return(IntersectionResult("LINE",
                     LineSegment(Point(ox1, oy1), Point(ox2, oy1))))
        ELSE LET r == Rectangle(ox1, oy1, ox2, oy2)
             IN  IF r.raised THEN r
                 ELSE Return(IntersectionResult("AREA", r.value))

\* containment with a non-strict top edge in the B-inside-A test.
containment_NonStrictBInA(ra, rb) ==
    IF rb.x1 < ra.x1 /\ ra.x2 < rb.x2 /\ rb.y1 < ra.y1 /\ ra.y2 < rb.y2
        THEN "A_IN_B"
    ELSE IF ra.x1 < rb.x1 /\ rb.x2 < ra.x2 /\ ra.y1 < rb.y1 /\ rb.y2 <= ra.y2
        THEN "B_IN_A"
    ELSE "NONE"

\* containment with a non-strict left edge in the A-inside-B test.
containment_NonStrictAInB(ra, rb) ==
    IF rb.x1 <= ra.x1 /\ ra.x2 < rb.x2 /\ rb.y1 < ra.y1 /\ ra.y2 < rb.y2
        THEN "A_IN_B"
    ELSE IF ra.x1 < rb.x1 /\ rb.x2 < ra.x2 /\ ra.y1 < rb.y1 /\ rb.y2 < ra.y2
        THEN "B_IN_A"
    ELSE "NONE"

\* containment with the two labels exchanged.
containment_SwappedLabels(ra, rb) ==
    IF rb.x1 < ra.x1 /\ ra.x2 < rb.x2 /\ rb.y1 < ra.y1 /\ ra.y2 < rb.y2
        THEN "B_IN_A"
    ELSE IF ra.x1 < rb.x1 /\ rb.x2 < ra.x2 /\ ra.y1 < rb.y1 /\ rb.y2 < ra.y2
        THEN "A_IN_B"
    ELSE "NONE"

\* RectangleAnalyzer.containment
containment(ra, rb) ==
    IF rb.x1 < ra.x1 /\ ra.x2 < rb.x2 /\ rb.y1 < ra.y1 /\ ra.y2 < rb.y2
        THEN "A_IN_B"
    ELSE IF ra.x1 < rb.x1 /\ rb.x2 < ra.x2 /\ ra.y1 < rb.y1 /\ rb.y2 < ra.y2
        THEN "B_IN_A"
    ELSE "NONE"

\* _classify with SUB_LINE decided by a_full alone.
_classify_OnlyAFull(shared, vertical, span_a, span_b) ==
    LET lo == max(span_a[1], span_b[1])
        hi == min(span_a[2], span_b[2])
        a_full == (lo = span_a[1] /\ hi = span_a[2])
        b_full == (lo = span_b[1] /\ hi = span_b[2])
        adj_type == IF a_full /\ b_full THEN "PROPER"
                    ELSE IF a_full THEN "SUB_LINE"
                    ELSE "PARTIAL"
        segment == IF vertical
                   THEN LineSegment(Point(shared, lo), Point(shared, hi))
                   ELSE LineSegment(Point(lo, shared), Point(hi, shared))
    IN  IF hi <= lo THEN None
        ELSE AdjacencyResult(adj_type, segment)

\* _classify answering a NONE result that keeps the segment instead of None.
_classify_NoneResult(shared, vertical, span_a, span_b) ==
    LET lo == max(span_a[1], span_b[1])
        hi == min(span_a[2], span_b[2])
        a_full == (lo = span_a[1] /\ hi = span_a[2])
        b_full == (lo = span_b[1] /\ hi = span_b[2])
        adj_type == IF a_full /\ b_full THEN "PROPER"
                    ELSE IF a_full \/ b_full THEN "SUB_LINE"
                    ELSE "PARTIAL"
        segment == IF vertical
                   THEN LineSegment(Point(shared, lo), Point(shared, hi))
                   ELSE LineSegment(Point(lo, shared), Point(hi, shared))
    IN  IF hi <= lo THEN AdjacencyResult("NONE", segment)
        ELSE AdjacencyResult(adj_type, segment)

\* _classify with the vertical segment built with x and y exchanged.
_classify_SwappedAxes(shared, vertical, span_a, span_b) ==
    LET lo == max(span_a[1], span_b[1])
        hi == min(span_a[2], span_b[2])
        a_full == (lo = span_a[1] /\ hi = span_a[2])
        b_full == (lo = span_b[1] /\ hi = span_b[2])
        adj_type == IF a_full /\ b_full THEN "PROPER"
                    ELSE IF a_full \/ b_full THEN "SUB_LINE"
                    ELSE "PARTIAL"
        segment == IF vertical
                   THEN LineSegment(Point(lo, shared), Point(hi, shared))
                   ELSE LineSegment(Point(lo, shared), Point(hi, shared))
    IN  IF hi <= lo THEN None
        ELSE AdjacencyResult(adj_type, segment)

\* _classify rejecting only hi < lo, so a single common point counts as overlap.
_classify_PointOverlap(shared, vertical, span_a, span_b) ==
    LET lo == max(span_a[1], span_b[1])
        hi == min(span_a[2], span_b[2])
        a_full == (lo = span_a[1] /\ hi = span_a[2])
        b_full == (lo = span_b[1] /\ hi = span_b[2])
        adj_type == IF a_full /\ b_full THEN "PROPER"
                    ELSE IF a_full \/ b_full THEN "SUB_LINE"
                    ELSE "PARTIAL"
        segment == IF vertical
                   THEN LineSegment(Point(shared, lo), Point(shared, hi))
                   ELSE LineSegment(Point(lo, shared), Point(hi, shared))
    IN  IF hi < lo THEN None
        ELSE AdjacencyResult(adj_type, segment)

\* _classify with lo taken as the smaller of the two span starts.
_classify_MinLow(shared, vertical, span_a, span_b) ==
    LET lo == min(span_a[1], span_b[1])
        hi == min(span_a[2], span_b[2])
        a_full == (lo = span_a[1] /\ hi = span_a[2])
        b_full == (lo = span_b[1] /\ hi = span_b[2])
        adj_type == IF a_full /\ b_full THEN "PROPER"
                    ELSE IF a_full \/ b_full THEN "SUB_LINE"
                    ELSE "PARTIAL"
        segment == IF vertical
                   THEN LineSegment(Point(shared, lo), Point(shared, hi))
                   ELSE LineSegment(Point(lo, shared), Point(hi, shared))
    IN  IF hi <= lo THEN None
        ELSE AdjacencyResult(adj_type, segment)

\* adjacency._classify: spans are Python pairs, span[0] is span[1] here and
\* span[1] is span[2].  Returns an AdjacencyResult, or None.
_classify(shared, vertical, span_a, span_b) ==
    LET lo == max(span_a[1], span_b[1])
        hi == min(span_a[2], span_b[2])
        a_full == (lo = span_a[1] /\ hi = span_a[2])
        b_full == (lo = span_b[1] /\ hi = span_b[2])
        adj_type == IF a_full /\ b_full THEN "PROPER"
                    ELSE IF a_full \/ b_full THEN "SUB_LINE"
                    ELSE "PARTIAL"
        segment == IF vertical
                   THEN LineSegment(Point(shared, lo), Point(shared, hi))
                   ELSE LineSegment(Point(lo, shared), Point(hi, shared))
    IN  IF hi <= lo THEN None
        ELSE AdjacencyResult(adj_type, segment)

\* adjacency with the first check comparing the two left edges (a.x1 with b.x1).
adjacency_SameSide(ra, rb) ==
    LET right  == _classify(ra.x2, TRUE,  <<ra.y1, ra.y2>>, <<rb.y1, rb.y2>>)
        left   == _classify(ra.x1, TRUE,  <<ra.y1, ra.y2>>, <<rb.y1, rb.y2>>)
        top    == _classify(ra.y2, FALSE, <<ra.x1, ra.x2>>, <<rb.x1, rb.x2>>)
        bottom == _classify(ra.y1, FALSE, <<ra.x1, ra.x2>>, <<rb.x1, rb.x2>>)
    IN  IF ra.x1 = rb.x1 /\ right # None THEN right
        ELSE IF ra.x1 = rb.x2 /\ left # None THEN left
        ELSE IF ra.y2 = rb.y1 /\ top # None THEN top
        ELSE IF ra.y1 = rb.y2 /\ bottom # None THEN bottom
        ELSE AdjacencyResult("NONE", None)

\* adjacency with the left-meets-right check passing a.x2 as the shared coordinate.
adjacency_SharedFromFarEdge(ra, rb) ==
    LET right  == _classify(ra.x2, TRUE,  <<ra.y1, ra.y2>>, <<rb.y1, rb.y2>>)
        left   == _classify(ra.x2, TRUE,  <<ra.y1, ra.y2>>, <<rb.y1, rb.y2>>)
        top    == _classify(ra.y2, FALSE, <<ra.x1, ra.x2>>, <<rb.x1, rb.x2>>)
        bottom == _classify(ra.y1, FALSE, <<ra.x1, ra.x2>>, <<rb.x1, rb.x2>>)
    IN  IF ra.x2 = rb.x1 /\ right # None THEN right
        ELSE IF ra.x1 = rb.x2 /\ left # None THEN left
        ELSE IF ra.y2 = rb.y1 /\ top # None THEN top
        ELSE IF ra.y1 = rb.y2 /\ bottom # None THEN bottom
        ELSE AdjacencyResult("NONE", None)

\* RectangleAnalyzer.adjacency: the four boundary checks in source order,
\* the first classified result is returned.
adjacency(ra, rb) ==
    LET right  == _classify(ra.x2, TRUE,  <<ra.y1, ra.y2>>, <<rb.y1, rb.y2>>)
        left   == _classify(ra.x1, TRUE,  <<ra.y1, ra.y2>>, <<rb.y1, rb.y2>>)
        top    == _classify(ra.y2, FALSE, <<ra.x1, ra.x2>>, <<rb.x1, rb.x2>>)
        bottom == _classify(ra.y1, FALSE, <<ra.x1, ra.x2>>, <<rb.x1, rb.x2>>)
    IN  IF ra.x2 = rb.x1 /\ right # None THEN right
        ELSE IF ra.x1 = rb.x2 /\ left # None THEN left
        ELSE IF ra.y2 = rb.y1 /\ top # None THEN top
        ELSE IF ra.y1 = rb.y2 /\ bottom # None THEN bottom
        ELSE AdjacencyResult("NONE", None)

----------------------------------------------------------------------------
(* The caller *)

Init ==
    /\ pc = "start"
    /\ argsA = <<>>
    /\ argsB = <<>>
    /\ a = None
    /\ b = None
    /\ exc = None
    /\ ires = None
    /\ cres = "unset"
    /\ ares = None
    /\ args = None
    /\ stdout = <<>>
    /\ stderr = <<>>
    /\ exitCode = -1

\* a = Rectangle(x1, y1, x2, y2)
ConstructA ==
    /\ pc = "start"
    /\ \E x1 \in Coord, y1 \in Coord, x2 \in Coord, y2 \in Coord :
          LET r == Rectangle(x1, y1, x2, y2)
          IN  /\ argsA' = <<x1, y1, x2, y2>>
              /\ a' = r.value
              /\ exc' = r.exc
              /\ pc' = IF r.raised THEN "raised" ELSE "haveA"
    /\ UNCHANGED <<argsB, b, ires, cres, ares>>
    /\ UNCHANGED cliVars

\* b = Rectangle(x1, y1, x2, y2)
ConstructB ==
    /\ pc = "haveA"
    /\ \E x1 \in Coord, y1 \in Coord, x2 \in Coord, y2 \in Coord :
          LET r == Rectangle(x1, y1, x2, y2)
          IN  /\ argsB' = <<x1, y1, x2, y2>>
              /\ b' = r.value
              /\ exc' = r.exc
              /\ pc' = IF r.raised THEN "raised" ELSE "haveAB"
    /\ UNCHANGED <<argsA, a, ires, cres, ares>>
    /\ UNCHANGED cliVars

\* RectangleAnalyzer.intersect(a, b)
Intersect ==
    /\ pc = "haveAB"
    /\ ires = None
    /\ LET r == intersect(a, b)
       IN  /\ ires' = r.value
           /\ exc' = r.exc
           /\ pc' = IF r.raised THEN "raised" ELSE pc
    /\ UNCHANGED <<argsA, argsB, a, b, cres, ares>>
    /\ UNCHANGED cliVars

\* RectangleAnalyzer.containment(a, b)
Containment ==
    /\ pc = "haveAB"
    /\ cres = "unset"
    /\ cres' = containment(a, b)
    /\ UNCHANGED <<pc, argsA, argsB, a, b, exc, ires, ares>>
    /\ UNCHANGED cliVars

\* RectangleAnalyzer.adjacency(a, b)
Adjacency ==
    /\ pc = "haveAB"
    /\ ares = None
    /\ ares' = adjacency(a, b)
    /\ UNCHANGED <<pc, argsA, argsB, a, b, exc, ires, cres>>
    /\ UNCHANGED cliVars

Next ==
    \/ ConstructA
    \/ ConstructB
    \/ Intersect
    \/ Containment
    \/ Adjacency

Spec == Init /\ [][Next]_vars

----------------------------------------------------------------------------
(* cli.py *)

\* Largest coordinate accepted on the command line of the CLI model.
CliMaxCoord == 3

CliCoord == 0..CliMaxCoord

\* The subcommands registered by _build_parser.
Commands == {"intersect", "containment", "adjacency", "all"}

\* A formatted geometry: the name in front of the f-string and its holes.
Fmt(name, nums) == [fmt |-> name, nums |-> nums]

\* One printed line: the label before the colon, a word, a formatted geometry.
OutLine(label, text, geometry) ==
    [label |-> label, text |-> text, geometry |-> geometry]

\* print() and the "\n" at the start and the end of the header.
BlankLine == OutLine("", "", Fmt("", <<>>))

\* print(f"Error: {exc}", file=sys.stderr)
ErrLine(e) == [label |-> "Error", exc |-> e]

\* _fmt_geometry
_fmt_geometry(geometry) ==
    IF geometry = None THEN Fmt("none", <<>>)
    ELSE IF geometry.cls = "Point" THEN Fmt("Point", <<geometry.x, geometry.y>>)
    ELSE IF geometry.cls = "LineSegment" THEN
        Fmt("LineSegment", <<geometry.start.x, geometry.start.y,
                             geometry.end.x, geometry.end.y>>)
    ELSE Fmt("Rectangle", <<geometry.x1, geometry.y1, geometry.x2, geometry.y2>>)

\* The "(x1, y1) -> (x2, y2)" of the header lines of run.
FmtCorners(r) ==
    IF r = None THEN Fmt("", <<>>) ELSE Fmt("", <<r.x1, r.y1, r.x2, r.y2>>)

\* IntersectionType.value
IntersectionValue ==
    [NONE |-> "none", POINT |-> "point", LINE |-> "line", AREA |-> "area"]

\* _print_intersection
_print_intersection(result) ==
    <<OutLine("Intersection", IntersectionValue[result.type], Fmt("", <<>>))>>
    \o (IF result.geometry # None
        THEN <<OutLine("Geometry", "", _fmt_geometry(result.geometry))>>
        ELSE <<>>)

\* The labels dictionary of _print_containment.
ContainmentLabels ==
    [A_IN_B |-> "A is strictly inside B",
     B_IN_A |-> "B is strictly inside A",
     NONE |-> "neither contains the other"]

\* _print_containment
_print_containment(result) ==
    <<OutLine("Containment", ContainmentLabels[result], Fmt("", <<>>))>>

\* The labels dictionary of _print_adjacency.
AdjacencyLabels ==
    [PROPER |-> "proper", SUB_LINE |-> "sub-line",
     PARTIAL |-> "partial", NONE |-> "none"]

\* _print_adjacency
_print_adjacency(result) ==
    <<OutLine("Adjacency", AdjacencyLabels[result.type], Fmt("", <<>>))>>
    \o (IF result.geometry # None
        THEN <<OutLine("Shared edge", "", _fmt_geometry(result.geometry))>>
        ELSE <<>>)

\* run returning 0 from the except branch.
run_FailureExitsZero(ns) ==
    LET ra == Rectangle(ns.ax1, ns.ay1, ns.ax2, ns.ay2)
        rb == Rectangle(ns.bx1, ns.by1, ns.bx2, ns.by2)
        cmd == ns.command
        header == <<BlankLine, OutLine("A", "", FmtCorners(ra.value)),
                    OutLine("B", "", FmtCorners(rb.value)), BlankLine>>
        i == intersect(ra.value, rb.value)
        c == containment(ra.value, rb.value)
        j == adjacency(ra.value, rb.value)
        callI == cmd \in {"intersect", "all"}
        callC == cmd \in {"containment", "all"}
        callJ == cmd \in {"adjacency", "all"}
        base == [raised |-> FALSE, exc |-> None, exitCode |-> -1,
                 stdout |-> <<>>, stderr |-> <<>>,
                 argsA |-> <<ns.ax1, ns.ay1, ns.ax2, ns.ay2>>, argsB |-> <<>>,
                 a |-> None, b |-> None,
                 ires |-> None, cres |-> "unset", ares |-> None]
    IN  IF ra.raised THEN
            [base EXCEPT !.exc = ra.exc, !.exitCode = 0,
                         !.stderr = <<ErrLine(ra.exc)>>]
        ELSE IF rb.raised THEN
            [base EXCEPT !.exc = rb.exc, !.exitCode = 0,
                         !.stderr = <<ErrLine(rb.exc)>>,
                         !.a = ra.value,
                         !.argsB = <<ns.bx1, ns.by1, ns.bx2, ns.by2>>]
        ELSE IF callI /\ i.raised THEN
            [base EXCEPT !.raised = TRUE, !.exc = i.exc, !.stdout = header,
                         !.a = ra.value, !.b = rb.value,
                         !.argsB = <<ns.bx1, ns.by1, ns.bx2, ns.by2>>]
        ELSE
            [base EXCEPT !.exitCode = 0,
                         !.stdout = header
                                    \o (IF callI THEN _print_intersection(i.value) ELSE <<>>)
                                    \o (IF callC THEN _print_containment(c) ELSE <<>>)
                                    \o (IF callJ THEN _print_adjacency(j) ELSE <<>>)
                                    \o <<BlankLine>>,
                         !.a = ra.value, !.b = rb.value,
                         !.argsB = <<ns.bx1, ns.by1, ns.bx2, ns.by2>>,
                         !.ires = IF callI THEN i.value ELSE None,
                         !.cres = IF callC THEN c ELSE "unset",
                         !.ares = IF callJ THEN j ELSE None]

\* run, after parse_args: both constructors inside one try whose except
\* branch prints the error and returns 1; then the header, the analyses the
\* subcommand selects, a blank line, and return 0.  An exception raised by
\* an analyzer call is outside the try and propagates.
run(ns) ==
    LET ra == Rectangle(ns.ax1, ns.ay1, ns.ax2, ns.ay2)
        rb == Rectangle(ns.bx1, ns.by1, ns.bx2, ns.by2)
        cmd == ns.command
        header == <<BlankLine, OutLine("A", "", FmtCorners(ra.value)),
                    OutLine("B", "", FmtCorners(rb.value)), BlankLine>>
        i == intersect(ra.value, rb.value)
        c == containment(ra.value, rb.value)
        j == adjacency(ra.value, rb.value)
        callI == cmd \in {"intersect", "all"}
        callC == cmd \in {"containment", "all"}
        callJ == cmd \in {"adjacency", "all"}
        base == [raised |-> FALSE, exc |-> None, exitCode |-> -1,
                 stdout |-> <<>>, stderr |-> <<>>,
                 argsA |-> <<ns.ax1, ns.ay1, ns.ax2, ns.ay2>>, argsB |-> <<>>,
                 a |-> None, b |-> None,
                 ires |-> None, cres |-> "unset", ares |-> None]
    IN  IF ra.raised THEN
            [base EXCEPT !.exc = ra.exc, !.exitCode = 1,
                         !.stderr = <<ErrLine(ra.exc)>>]
        ELSE IF rb.raised THEN
            [base EXCEPT !.exc = rb.exc, !.exitCode = 1,
                         !.stderr = <<ErrLine(rb.exc)>>,
                         !.a = ra.value,
                         !.argsB = <<ns.bx1, ns.by1, ns.bx2, ns.by2>>]
        ELSE IF callI /\ i.raised THEN
            [base EXCEPT !.raised = TRUE, !.exc = i.exc, !.stdout = header,
                         !.a = ra.value, !.b = rb.value,
                         !.argsB = <<ns.bx1, ns.by1, ns.bx2, ns.by2>>]
        ELSE
            [base EXCEPT !.exitCode = 0,
                         !.stdout = header
                                    \o (IF callI THEN _print_intersection(i.value) ELSE <<>>)
                                    \o (IF callC THEN _print_containment(c) ELSE <<>>)
                                    \o (IF callJ THEN _print_adjacency(j) ELSE <<>>)
                                    \o <<BlankLine>>,
                         !.a = ra.value, !.b = rb.value,
                         !.argsB = <<ns.bx1, ns.by1, ns.bx2, ns.by2>>,
                         !.ires = IF callI THEN i.value ELSE None,
                         !.cres = IF callC THEN c ELSE "unset",
                         !.ares = IF callJ THEN j ELSE None]

\* One invocation of the CLI with a parsed command line.
Run ==
    /\ pc = "start"
    /\ \E cmd \in Commands,
          ax1 \in CliCoord, ay1 \in CliCoord, ax2 \in CliCoord, ay2 \in CliCoord,
          bx1 \in CliCoord, by1 \in CliCoord, bx2 \in CliCoord, by2 \in CliCoord :
          LET ns == [command |-> cmd, ax1 |-> ax1, ay1 |-> ay1, ax2 |-> ax2,
                     ay2 |-> ay2, bx1 |-> bx1, by1 |-> by1, bx2 |-> bx2,
                     by2 |-> by2]
              r == run(ns)
          IN  /\ args' = ns
              /\ pc' = IF r.raised THEN "raised" ELSE "done"
              /\ argsA' = r.argsA
              /\ argsB' = r.argsB
              /\ a' = r.a
              /\ b' = r.b
              /\ exc' = r.exc
              /\ ires' = r.ires
              /\ cres' = r.cres
              /\ ares' = r.ares
              /\ stdout' = r.stdout
              /\ stderr' = r.stderr
              /\ exitCode' = r.exitCode

NextCli == Run

SpecCli == Init /\ [][NextCli]_vars

----------------------------------------------------------------------------
(* Properties *)

\* The coordinate tuple t = <<x1, y1, x2, y2>> is strictly ordered on both axes.
Ordered(t) == t[1] < t[3] /\ t[2] < t[4]

\* What one constructor call with arguments t left behind in (r, e, p).
ConstructedIffOrdered(t, r) ==
    /\ (r.cls = "Rectangle") <=> Ordered(t)
    /\ Ordered(t) =>
          /\ r.x1 = t[1] /\ r.y1 = t[2] /\ r.x2 = t[3] /\ r.y2 = t[4]
    /\ ~Ordered(t) =>
          /\ r = None
          /\ exc.cls = "ValueError"
          /\ pc = "raised"

\* C1: constructing Rectangle(x1, y1, x2, y2) succeeds if and only if
\* x1 < x2 and y1 < y2; for every other tuple it fails with a ValueError and
\* no rectangle value is produced.
C1_ConstructionIffOrdered ==
    /\ argsA # <<>> => ConstructedIffOrdered(argsA, a)
    /\ argsB # <<>> => ConstructedIffOrdered(argsB, b)

\* A is a rectangle and the construction of B with zero height has failed.
C1_Witness ==
    /\ pc = "raised"
    /\ a.cls = "Rectangle"
    /\ argsB = <<1, 2, 3, 2>>
    /\ b = None

\* The error e names the pair n1/n2 with the values v1/v2 and neither m1 nor m2.
NamesOnly(e, n1, v1, n2, v2, m1, m2) ==
    /\ e.cls = "ValueError"
    /\ e.lo = n1 /\ e.loVal = v1
    /\ e.hi = n2 /\ e.hiVal = v2
    /\ {e.lo, e.hi} \cap {m1, m2} = {}

\* The error left by a failed constructor call with arguments t.
ErrorNamesAxis(t) ==
    /\ (t[1] >= t[3] /\ t[2] < t[4]) =>
          NamesOnly(exc, "x1", t[1], "x2", t[3], "y1", "y2")
    /\ (t[1] < t[3] /\ t[2] >= t[4]) =>
          NamesOnly(exc, "y1", t[2], "y2", t[4], "x1", "x2")

\* C2: a construction failure identifies the invalid axis and the offending
\* values: if only the x ordering is violated the error names x1/x2 with
\* their values and not y; if only the y ordering is violated it names y1/y2
\* with their values and not x.
C2_ErrorNamesAxis ==
    /\ argsA # <<>> => ErrorNamesAxis(argsA)
    /\ (argsB # <<>> /\ Ordered(argsA)) => ErrorNamesAxis(argsB)

\* The construction of A failed on the y axis only (inverted height).
C2_Witness ==
    /\ pc = "raised"
    /\ argsA = <<0, 3, 2, 1>>
    /\ exc.cls = "ValueError"
    /\ exc.lo = "y1"

\* C3: intersect is symmetric: intersect(a, b) equals intersect(b, a) by
\* value, the same kind and the identical witness geometry including the
\* order of the segment endpoints.
C3_IntersectSymmetric ==
    ires # None => intersect(b, a) = Return(ires)

\* A sits to the right of B and starts lower: a vertical shared segment whose
\* constant x comes from a.x1 in one order and from b.x2 in the other.
C3_Witness ==
    /\ ires # None
    /\ ires.type = "LINE"
    /\ a.x1 = b.x2
    /\ a.y1 < b.y1

\* C4: adjacency is symmetric: adjacency(a, b) equals adjacency(b, a) by
\* value, the same kind and the identical witness segment, whichever of the
\* four boundary checks fires in each argument order.
C4_AdjacencySymmetric ==
    ares # None => adjacency(b, a) = ares

\* The bottom of A meets the top of B (fourth check for (a, b), third for
\* (b, a)) and exactly one of the two sides is covered in full.
C4_Witness ==
    /\ ares # None
    /\ ares.type = "SUB_LINE"
    /\ a.y1 = b.y2

\* C5: containment is anti-symmetric under argument swap:
\* containment(a, b) = A_IN_B iff containment(b, a) = B_IN_A, and
\* containment(a, b) = NONE iff containment(b, a) = NONE.
C5_ContainmentAntiSymmetric ==
    cres # "unset" =>
        /\ (cres = "A_IN_B") <=> (containment(b, a) = "B_IN_A")
        /\ (cres = "NONE") <=> (containment(b, a) = "NONE")

\* A strictly inside B was reported.
C5_Witness ==
    /\ cres = "A_IN_B"
    /\ containment(b, a) = "B_IN_A"

\* Every edge of inner lies strictly inside outer.
StrictlyInside(inner, outer) ==
    /\ outer.x1 < inner.x1
    /\ inner.x2 < outer.x2
    /\ outer.y1 < inner.y1
    /\ inner.y2 < outer.y2

\* C6: containment(a, b) is A_IN_B exactly when b.x1 < a.x1, a.x2 < b.x2,
\* b.y1 < a.y1 and a.y2 < b.y2, B_IN_A exactly when the same holds with a
\* and b exchanged, and NONE otherwise; the two conditions are never both
\* true, so checking A_IN_B first never hides a B_IN_A case.
C6_ContainmentStrict ==
    cres # "unset" =>
        /\ (cres = "A_IN_B") <=> StrictlyInside(a, b)
        /\ (cres = "B_IN_A") <=> StrictlyInside(b, a)
        /\ (cres = "NONE") <=> (~StrictlyInside(a, b) /\ ~StrictlyInside(b, a))
        /\ ~(StrictlyInside(a, b) /\ StrictlyInside(b, a))

\* A lies inside B except that the two left edges coincide: NONE.
C6_Witness ==
    /\ cres = "NONE"
    /\ a.x1 = b.x1
    /\ a.x2 < b.x2
    /\ b.y1 < a.y1
    /\ a.y2 < b.y2

\* The greatest and the least element of a finite set of integers.
Greatest(S) == CHOOSE m \in S : \A n \in S : n <= m

Least(S) == CHOOSE m \in S : \A n \in S : m <= n

\* The result the overlap table prescribes for the pair (ra, rb).
OverlapTable(ra, rb) ==
    LET ox1 == Greatest({ra.x1, rb.x1})
        ox2 == Least({ra.x2, rb.x2})
        oy1 == Greatest({ra.y1, rb.y1})
        oy2 == Least({ra.y2, rb.y2})
    IN  IF ox1 > ox2 \/ oy1 > oy2
            THEN [cls |-> "IntersectionResult", type |-> "NONE", geometry |-> None]
        ELSE IF ox1 = ox2 /\ oy1 = oy2
            THEN [cls |-> "IntersectionResult", type |-> "POINT",
                  geometry |-> [cls |-> "Point", x |-> ox1, y |-> oy1]]
        ELSE IF ox1 = ox2
            THEN [cls |-> "IntersectionResult", type |-> "LINE",
                  geometry |-> [cls |-> "LineSegment",
                                start |-> [cls |-> "Point", x |-> ox1, y |-> oy1],
                                end |-> [cls |-> "Point", x |-> ox1, y |-> oy2]]]
        ELSE IF oy1 = oy2
            THEN [cls |-> "IntersectionResult", type |-> "LINE",
                  geometry |-> [cls |-> "LineSegment",
                                start |-> [cls |-> "Point", x |-> ox1, y |-> oy1],
                                end |-> [cls |-> "Point", x |-> ox2, y |-> oy1]]]
        ELSE [cls |-> "IntersectionResult", type |-> "AREA",
              geometry |-> [cls |-> "Rectangle", x1 |-> ox1, y1 |-> oy1,
                            x2 |-> ox2, y2 |-> oy2]]

\* The closed rectangles ra and rb have a common point.
Touching(ra, rb) ==
    /\ ra.x1 <= rb.x2 /\ rb.x1 <= ra.x2
    /\ ra.y1 <= rb.y2 /\ rb.y1 <= ra.y2

\* C7: with ox1 = max(a.x1, b.x1), ox2 = min(a.x2, b.x2), oy1 = max(a.y1,
\* b.y1), oy2 = min(a.y2, b.y2), intersect(a, b) returns NONE without
\* geometry if ox1 > ox2 or oy1 > oy2, else POINT at (ox1, oy1) if both
\* intervals are single values, else the vertical LINE (ox1, oy1)-(ox1, oy2)
\* if ox1 = ox2, else the horizontal LINE (ox1, oy1)-(ox2, oy1) if
\* oy1 = oy2, else AREA with the rectangle (ox1, oy1, ox2, oy2); a boundary
\* touch is never NONE.  The call always returns.
C7_IntersectTable ==
    /\ ires # None =>
          /\ ires = OverlapTable(a, b)
          /\ Touching(a, b) => ires.type # "NONE"
    /\ pc = "raised" => b = None

\* A corner touch: the top-right corner of A is the bottom-left corner of B.
C7_Witness ==
    /\ ires # None
    /\ ires.type = "POINT"
    /\ a.x2 = b.x1
    /\ a.y2 = b.y1

\* C8: every IntersectionResult returned by intersect has geometry None if
\* and only if its kind is NONE, and otherwise the class of the geometry
\* matches the kind: POINT a Point, LINE a LineSegment, AREA a Rectangle.
C8_IntersectGeometryMatchesKind ==
    ires # None =>
        /\ ires.type \in {"NONE", "POINT", "LINE", "AREA"}
        /\ (ires.geometry = None) <=> (ires.type = "NONE")
        /\ ires.type = "POINT" => ires.geometry.cls = "Point"
        /\ ires.type = "LINE" => ires.geometry.cls = "LineSegment"
        /\ ires.type = "AREA" => ires.geometry.cls = "Rectangle"

\* A horizontal shared edge (top of A on the bottom of B) returned as a LINE.
C8_Witness ==
    /\ ires # None
    /\ ires.type = "LINE"
    /\ a.y2 = b.y1
    /\ ires.geometry.cls = "LineSegment"

\* C9: every AdjacencyResult returned by adjacency has geometry None if and
\* only if its kind is NONE; when the kind is PROPER, SUB_LINE or PARTIAL the
\* geometry is a LineSegment.
C9_AdjacencyGeometryIffKind ==
    ares # None =>
        /\ ares.type \in {"NONE", "PROPER", "SUB_LINE", "PARTIAL"}
        /\ (ares.geometry = None) <=> (ares.type = "NONE")
        /\ ares.type \in {"PROPER", "SUB_LINE", "PARTIAL"} =>
              ares.geometry.cls = "LineSegment"

\* A corner touch: a boundary equality holds, the helper rejects it, and the
\* result is NONE without geometry.
C9_Witness ==
    /\ ares # None
    /\ a.x2 = b.x1
    /\ a.y1 = b.y2
    /\ ares.type = "NONE"
    /\ ares.geometry = None

\* C10: intersect is reflexive: intersect(r, r) has kind AREA and its
\* geometry equals r itself.
C10_IntersectReflexive ==
    (pc \in {"haveAB", "raised"} /\ a # None /\ a = b) =>
        /\ pc = "haveAB"
        /\ ires # None => (ires.type = "AREA" /\ ires.geometry = a)

\* intersect was called on a non-square rectangle and itself.
C10_Witness ==
    /\ ires # None
    /\ a = b
    /\ a.x2 - a.x1 # a.y2 - a.y1
    /\ ires.type = "AREA"

\* The spans <<lo, hi>> s and t overlap with strictly positive length.
PositiveOverlap(s, t) == Least({s[2], t[2]}) > Greatest({s[1], t[1]})

\* A left/right boundary pair coincides and the y spans overlap.
VerticalMatch(ra, rb) ==
    /\ ra.x2 = rb.x1 \/ ra.x1 = rb.x2
    /\ PositiveOverlap(<<ra.y1, ra.y2>>, <<rb.y1, rb.y2>>)

\* A top/bottom boundary pair coincides and the x spans overlap.
HorizontalMatch(ra, rb) ==
    /\ ra.y2 = rb.y1 \/ ra.y1 = rb.y2
    /\ PositiveOverlap(<<ra.x1, ra.x2>>, <<rb.x1, rb.x2>>)

\* C11: adjacency(a, b) is non-NONE if and only if one pair of opposite
\* parallel boundaries coincides exactly (a.x2 = b.x1, a.x1 = b.x2,
\* a.y2 = b.y1 or a.y1 = b.y2) and the perpendicular spans along that
\* boundary overlap with strictly positive length; a gap, an aligned
\* boundary without span overlap, or a same-side coincidence gives NONE.
C11_AdjacentIffSharedBoundary ==
    ares # None =>
        ((ares.type # "NONE") <=> (VerticalMatch(a, b) \/ HorizontalMatch(a, b)))

\* The right edge of A lies on the line of the left edge of B, but B is
\* entirely above A: aligned boundary, no span overlap, NONE.
C11_Witness ==
    /\ ares # None
    /\ a.x2 = b.x1
    /\ a.y2 < b.y1
    /\ ares.type = "NONE"

\* The kind the overlap [lo, hi] of the spans s and t prescribes.
KindOfOverlap(s, t) ==
    LET lo == Greatest({s[1], t[1]})
        hi == Least({s[2], t[2]})
        nFull == Cardinality({u \in {<<1, s>>, <<2, t>>} : u[2] = <<lo, hi>>})
    IN  IF nFull = 2 THEN "PROPER"
        ELSE IF nFull = 1 THEN "SUB_LINE"
        ELSE "PARTIAL"

\* C12: when adjacency(a, b) is non-NONE via a shared boundary with overlap
\* [lo, hi], the kind is PROPER iff the overlap equals both full spans,
\* SUB_LINE iff it equals exactly one, PARTIAL iff neither; the witness runs
\* along the shared coordinate from lo to hi, vertical (constant x) for a
\* left/right match and horizontal (constant y) for a top/bottom match, with
\* the same thresholds in both orientations.
C12_AdjacencyKindAndSegment ==
    (ares # None /\ ares.type # "NONE") =>
        /\ VerticalMatch(a, b) =>
              LET sa == <<a.y1, a.y2>>
                  sb == <<b.y1, b.y2>>
                  x  == IF a.x2 = b.x1 THEN a.x2 ELSE a.x1
              IN  /\ ares.type = KindOfOverlap(sa, sb)
                  /\ ares.geometry.cls = "LineSegment"
                  /\ ares.geometry.start.x = x /\ ares.geometry.end.x = x
                  /\ ares.geometry.start.y = Greatest({a.y1, b.y1})
                  /\ ares.geometry.end.y = Least({a.y2, b.y2})
        /\ HorizontalMatch(a, b) =>
              LET sa == <<a.x1, a.x2>>
                  sb == <<b.x1, b.x2>>
                  y  == IF a.y2 = b.y1 THEN a.y2 ELSE a.y1
              IN  /\ ares.type = KindOfOverlap(sa, sb)
                  /\ ares.geometry.cls = "LineSegment"
                  /\ ares.geometry.start.y = y /\ ares.geometry.end.y = y
                  /\ ares.geometry.start.x = Greatest({a.x1, b.x1})
                  /\ ares.geometry.end.x = Least({a.x2, b.x2})
        /\ VerticalMatch(a, b) \/ HorizontalMatch(a, b)

\* A left/right match in which only a strict part of each side is shared.
C12_Witness ==
    /\ ares # None
    /\ ares.type = "PARTIAL"
    /\ a.x1 = b.x2
    /\ ares.geometry.start.x = ares.geometry.end.x

\* C13: corner touches and area overlaps are never adjacencies: if
\* intersect(a, b) is POINT or AREA then adjacency(a, b) is NONE with
\* geometry None.
C13_PointOrAreaNotAdjacent ==
    (ires # None /\ ares # None /\ ires.type \in {"POINT", "AREA"}) =>
        (ares.type = "NONE" /\ ares.geometry = None)

\* Both functions were called on a pair touching in one corner only.
C13_Witness ==
    /\ ires # None
    /\ ares # None
    /\ ires.type = "POINT"
    /\ a.x1 = b.x2
    /\ ares.type = "NONE"

\* C14: validation errors arise only at caller-side construction: on two
\* validly constructed rectangles intersect, containment and adjacency
\* always return a result; the rectangle intersect builds in its AREA branch
\* has ox1 < ox2 and oy1 < oy2, so its validation never raises.
C14_AnalysisNeverRaises ==
    /\ pc = "raised" => (exc.cls = "ValueError" /\ (a = None \/ b = None))
    /\ (a # None /\ b # None) =>
          /\ pc = "haveAB"
          /\ exc = None
          /\ ~intersect(a, b).raised
    /\ (ires # None /\ ires.type = "AREA") =>
          /\ ires.geometry.x1 < ires.geometry.x2
          /\ ires.geometry.y1 < ires.geometry.y2
    /\ cres \in {"unset", "A_IN_B", "B_IN_A", "NONE"}

\* All three functions have returned on an overlapping pair, nothing raised.
C14_Witness ==
    /\ pc = "haveAB"
    /\ ires # None
    /\ cres # "unset"
    /\ ares # None
    /\ ires.type = "AREA"
    /\ exc = None

\* What boundary check i of adjacency yields for (ra, rb), in source order:
\* 1 right-meets-left, 2 left-meets-right, 3 top-meets-bottom,
\* 4 bottom-meets-top; None when the edges differ or the helper rejects.
BoundaryCheck(i, ra, rb) ==
    IF i = 1 THEN
        IF ra.x2 = rb.x1
        THEN _classify(ra.x2, TRUE, <<ra.y1, ra.y2>>, <<rb.y1, rb.y2>>) ELSE None
    ELSE IF i = 2 THEN
        IF ra.x1 = rb.x2
        THEN _classify(ra.x1, TRUE, <<ra.y1, ra.y2>>, <<rb.y1, rb.y2>>) ELSE None
    ELSE IF i = 3 THEN
        IF ra.y2 = rb.y1
        THEN _classify(ra.y2, FALSE, <<ra.x1, ra.x2>>, <<rb.x1, rb.x2>>) ELSE None
    ELSE
        IF ra.y1 = rb.y2
        THEN _classify(ra.y1, FALSE, <<ra.x1, ra.x2>>, <<rb.x1, rb.x2>>) ELSE None

\* C16: for every pair of valid rectangles, overlapping or not, at most one
\* of the four boundary checks yields a classified result, so the result of
\* adjacency does not depend on the order in which the checks are tried.
C16_AtMostOneBoundaryClassifies ==
    ares # None =>
        LET classified == {i \in 1..4 : BoundaryCheck(i, a, b) # None}
        IN  /\ Cardinality(classified) <= 1
            /\ \A i \in classified : ares = BoundaryCheck(i, a, b)
            /\ classified = {} => ares.type = "NONE"

\* A corner touch on which two boundary equalities hold at once
\* (a.x1 = b.x2 and a.y2 = b.y1); the helper rejects both, so none classifies.
C16_Witness ==
    /\ ares # None
    /\ a.x1 = b.x2
    /\ a.y2 = b.y1
    /\ BoundaryCheck(2, a, b) = None
    /\ BoundaryCheck(3, a, b) = None
    /\ ares.type = "NONE"

\* The segment g is axis-aligned, of positive length, and runs from the
\* smaller to the larger value of its varying coordinate.
WellFormedSegment(g) ==
    /\ g.cls = "LineSegment"
    /\ \/ g.start.x = g.end.x /\ g.start.y < g.end.y
       \/ g.start.y = g.end.y /\ g.start.x < g.end.x

\* C17: every LineSegment produced by intersect (kind LINE) or by adjacency
\* (any non-NONE kind) is axis-aligned (start and end share x or share y,
\* not both), has strictly positive length, and has start at the smaller
\* and end at the larger value of the varying coordinate.
C17_SegmentsWellFormed ==
    /\ (ires # None /\ ires.type = "LINE") => WellFormedSegment(ires.geometry)
    /\ (ares # None /\ ares.type # "NONE") => WellFormedSegment(ares.geometry)

\* Both functions produced a vertical segment of length 1 on a grid where
\* the sides are longer.
C17_Witness ==
    /\ ires # None
    /\ ares # None
    /\ ires.type = "LINE"
    /\ ares.type = "PARTIAL"
    /\ ires.geometry.start.x = ires.geometry.end.x
    /\ ares.geometry.end.y - ares.geometry.start.y = 1

\* C18: whenever containment(a, b) is not NONE, intersect(a, b) has kind
\* AREA and its geometry equals the inner rectangle: a for A_IN_B, b for
\* B_IN_A.
C18_ContainedIsIntersection ==
    (ires # None /\ cres \in {"A_IN_B", "B_IN_A"}) =>
        /\ ires.type = "AREA"
        /\ cres = "A_IN_B" => ires.geometry = a
        /\ cres = "B_IN_A" => ires.geometry = b

\* B strictly inside A, and the intersection returned is B.
C18_Witness ==
    /\ ires # None
    /\ cres = "B_IN_A"
    /\ ires.geometry = b
    /\ a # b

\* C19: adjacency(a, b) is non-NONE if and only if intersect(a, b) has kind
\* LINE, and then the adjacency segment equals the intersection segment.
C19_AdjacentIffLine ==
    (ires # None /\ ares # None) =>
        /\ (ares.type # "NONE") <=> (ires.type = "LINE")
        /\ ares.type # "NONE" => ares.geometry = ires.geometry

\* The left edge of A on the right edge of B, sides equal: LINE and PROPER.
C19_Witness ==
    /\ ires # None
    /\ ares # None
    /\ a.x1 = b.x2
    /\ ires.type = "LINE"
    /\ ares.type = "PROPER"

\* Points with half-integer coordinates, kept as twice their value.
HalfGrid == (0..(2 * MaxCoord)) \X (0..(2 * MaxCoord))

\* The half-grid points of the closed rectangle r.
PointsOfRectangle(r) ==
    {p \in HalfGrid : /\ 2 * r.x1 <= p[1] /\ p[1] <= 2 * r.x2
                      /\ 2 * r.y1 <= p[2] /\ p[2] <= 2 * r.y2}

\* The half-grid points of a geometry value.
PointsOf(g) ==
    IF g.cls = "Point" THEN {p \in HalfGrid : p[1] = 2 * g.x /\ p[2] = 2 * g.y}
    ELSE IF g.cls = "LineSegment" THEN
        {p \in HalfGrid :
            \/ /\ g.start.x = g.end.x /\ p[1] = 2 * g.start.x
               /\ 2 * g.start.y <= p[2] /\ p[2] <= 2 * g.end.y
            \/ /\ g.start.y = g.end.y /\ p[2] = 2 * g.start.y
               /\ 2 * g.start.x <= p[1] /\ p[1] <= 2 * g.end.x}
    ELSE IF g.cls = "Rectangle" THEN PointsOfRectangle(g)
    ELSE {}

\* C20: the witness geometry of intersect(a, b) is exactly the set of
\* points common to the two closed rectangles: a grid point lies in the
\* returned geometry iff it lies in a and in b; the result is NONE iff no
\* such point exists.
C20_GeometryIsCommonPoints ==
    ires # None =>
        LET common == PointsOfRectangle(a) \cap PointsOfRectangle(b)
        IN  /\ PointsOf(ires.geometry) = common
            /\ (ires.type = "NONE") <=> (common = {})

\* A horizontal shared edge of which only a part is common: three half-grid
\* points.
C20_Witness ==
    /\ ires # None
    /\ ires.type = "LINE"
    /\ a.y1 = b.y2
    /\ Cardinality(PointsOf(ires.geometry)) = 3

\* The labels of the analysis result lines among the printed lines, in order.
AnalysisLabels(lines) ==
    LET IsResult(l) == l.label \in {"Intersection", "Containment", "Adjacency"}
        sel == SelectSeq(lines, IsResult)
    IN  [k \in 1..Len(sel) |-> sel[k].label]

\* The analyses each subcommand prints, in order.
RequestedAnalyses(cmd) ==
    IF cmd = "intersect" THEN <<"Intersection">>
    ELSE IF cmd = "containment" THEN <<"Containment">>
    ELSE IF cmd = "adjacency" THEN <<"Adjacency">>
    ELSE <<"Intersection", "Containment", "Adjacency">>

\* C15: run() for any of the subcommands intersect, containment, adjacency,
\* all returns 1 if the construction of rectangle A or of rectangle B fails
\* validation, with the error on the error stream and no analysis output,
\* and returns 0 otherwise after printing the requested analyses (all three,
\* in the order intersection, containment, adjacency, for `all`).
C15_CliExitCodes ==
    args # None =>
        LET okA == Ordered(<<args.ax1, args.ay1, args.ax2, args.ay2>>)
            okB == Ordered(<<args.bx1, args.by1, args.bx2, args.by2>>)
        IN  /\ pc = "done"
            /\ ~(okA /\ okB) =>
                  /\ exitCode = 1
                  /\ Len(stderr) = 1
                  /\ stderr[1].label = "Error"
                  /\ stderr[1].exc.cls = "ValueError"
                  /\ stdout = <<>>
                  /\ ires = None /\ cres = "unset" /\ ares = None
            /\ (okA /\ okB) =>
                  /\ exitCode = 0
                  /\ stderr = <<>>
                  /\ AnalysisLabels(stdout) = RequestedAnalyses(args.command)
                  /\ (ires # None) <=> (args.command \in {"intersect", "all"})
                  /\ (cres # "unset") <=> (args.command \in {"containment", "all"})
                  /\ (ares # None) <=> (args.command \in {"adjacency", "all"})

\* `all` on a valid pair sharing an edge: exit code 0 and five result
\* lines between the header and the closing blank line.
C15_Witness ==
    /\ pc = "done"
    /\ args # None
    /\ args.command = "all"
    /\ exitCode = 0
    /\ ires.type = "LINE"
    /\ Len(stdout) = 10

\* A valid and B with zero height: exit code 1, one error line, no output.
C15_WitnessFailure ==
    /\ pc = "done"
    /\ args # None
    /\ a # None
    /\ argsB = <<0, 1, 2, 1>>
    /\ exitCode = 1
    /\ Len(stderr) = 1

\* Both orderings of t = <<x1, y1, x2, y2>> are violated.
BothViolated(t) == t[1] >= t[3] /\ t[2] >= t[4]

\* The one error a constructor call with the unordered tuple t reports: the
\* x pair if the x ordering is violated, the y pair only otherwise.
FirstViolation(t) ==
    IF t[1] >= t[3]
    THEN [cls |-> "ValueError", lo |-> "x1", loVal |-> t[1],
          hi |-> "x2", hiVal |-> t[3]]
    ELSE [cls |-> "ValueError", lo |-> "y1", loVal |-> t[2],
          hi |-> "y2", hiVal |-> t[4]]

\* C21: validation checks the x ordering before the y ordering and stops at
\* the first violation: when both x1 >= x2 and y1 >= y2 the single error
\* reports only the x1/x2 pair; likewise the CLI constructs A before B, so
\* when both rectangles are invalid only A's error is reported.
C21_FirstViolationOnly ==
    args # None =>
        LET tA == <<args.ax1, args.ay1, args.ax2, args.ay2>>
            tB == <<args.bx1, args.by1, args.bx2, args.by2>>
        IN  /\ BothViolated(tA) =>
                  /\ exc.lo = "x1" /\ exc.loVal = tA[1]
                  /\ exc.hi = "x2" /\ exc.hiVal = tA[3]
                  /\ {exc.lo, exc.hi} \cap {"y1", "y2"} = {}
            /\ (Ordered(tA) /\ BothViolated(tB)) =>
                  /\ exc.lo = "x1" /\ exc.loVal = tB[1]
                  /\ exc.hi = "x2" /\ exc.hiVal = tB[3]
                  /\ {exc.lo, exc.hi} \cap {"y1", "y2"} = {}
            /\ (~Ordered(tA) /\ ~Ordered(tB)) =>
                  /\ exc = FirstViolation(tA)
                  /\ argsB = <<>>
                  /\ b = None
            /\ ~(Ordered(tA) /\ Ordered(tB)) =>
                  /\ Len(stderr) = 1
                  /\ stderr[1].exc = exc

\* A is inverted on both axes and B has zero width and zero height with
\* other values: the one error line carries the x pair of A.
C21_Witness ==
    /\ pc = "done"
    /\ args # None
    /\ args.ax1 = 2 /\ args.ay1 = 3 /\ args.ax2 = 1 /\ args.ay2 = 0
    /\ args.bx1 = 3 /\ args.by1 = 3 /\ args.bx2 = 3 /\ args.by2 = 3
    /\ exitCode = 1
    /\ Len(stderr) = 1
    /\ stderr[1].exc.lo = "x1"
    /\ stderr[1].exc.loVal = 2

====
